---- MODULE Spec2Model ----
(***************************************************************************)
(* Model of the post-processing processors of spine/post/reco/calo.py      *)
(* (CalorimetricEnergyProcessor, CalibrationProcessor) and of the GNN      *)
(* layer factories of mlreco/models/layers/gnn/models/factories.py.        *)
(*                                                                         *)
(* Numbers are integers: a deposition is a positive integer and dedx is    *)
(* counted in tenths (2.2 is 22).                                          *)
(***************************************************************************)
EXTENDS Integers, Sequences, FiniteSets, TLC

VARIABLES
    calib,   \* the CalibrationProcessor instance (state after __init__)
    calo,    \* the CalorimetricEnergyProcessor instance (state after __init__)
    entry,   \* the entry as the driver supplied it (never written)
    data,    \* the entry's data dictionary, mutated in place by process
    pc,      \* position of the pipeline: which process call is running
    pos,     \* position of the running process call in its iteration order
    run_id,  \* local variable run_id of CalibrationProcessor.process
    calls,   \* calls received by the calibration collaborator, in order
    error,   \* exception that left process, "none" if none
    built    \* last call of a GNN layer factory function and its outcome

vars == <<calib, calo, entry, data, pc, pos, run_id, calls, error, built>>

----------------------------------------------------------------------------
(* Bounds *)

MaxParts == 2      \* particles of one entry, both collections together
MaxPts == 2        \* points of one particle
MaxSize == 3       \* feature counts handed to the layer factories

----------------------------------------------------------------------------
(* Program constants *)

TRACK_SHP == 1
SHOWR_SHP == 0
None == 0          \* run_id = None (run numbers are positive)
DefaultDedx == 22  \* dedx=2.2, in tenths
UnsetKE == -1      \* calo_ke of a particle no processor wrote yet

Shapes == {SHOWR_SHP, TRACK_SHP}
RunModes == {"reco", "truth", "both"}

\* CalibrationProcessor._dep_attr_map
_dep_attr_map ==
    [m \in {"points", "points_adapt"} |->
        IF m = "points" THEN "depositions_q" ELSE "depositions_adapt_q"]

\* CalibrationProcessor._dep_map
_dep_map ==
    [m \in {"points", "points_adapt"} |->
        IF m = "points" THEN "depositions_label_q" ELSE "depositions"]

----------------------------------------------------------------------------
(* Sequences of numbers *)

RECURSIVE np_sum(_)
np_sum(s) == IF Len(s) = 0 THEN 0 ELSE Head(s) + np_sum(Tail(s))

\* tensor[index], defined when every element of index is a position of tensor
InBounds(tensor, index) == \A x \in DOMAIN index : index[x] \in DOMAIN tensor
Gather(tensor, index) == [x \in DOMAIN index |-> tensor[index[x]]]

\* tensor[index] = values
Scatter(tensor, index, values) ==
    [y \in DOMAIN tensor |->
        IF \E x \in DOMAIN index : index[x] = y
        THEN values[CHOOSE x \in DOMAIN index : index[x] = y]
        ELSE tensor[y]]

\* d[key] = value on a dictionary with string keys
SetItem(d, key, value) ==
    [x \in (DOMAIN d) \cup {key} |-> IF x = key THEN value ELSE d[x]]

----------------------------------------------------------------------------
(* PostBase: the part of the base class the two processors use *)

PostBase_obj_keys(run_mode) ==
    (IF run_mode # "truth" THEN <<"reco_particles">> ELSE <<>>)
        \o (IF run_mode # "reco" THEN <<"truth_particles">> ELSE <<>>)

get_points(self, part) ==
    IF ~part.is_truth THEN part.points ELSE part[self.truth_point_mode]

get_depositions(self, part) ==
    IF ~part.is_truth THEN part.depositions ELSE part[self.truth_dep_mode]

\* The particles of the configured collections, in the order of the two
\* nested loops of process: <<key, index in data[key]>>
RECURSIVE IterOrder(_, _)
IterOrder(obj_keys, d) ==
    IF Len(obj_keys) = 0 THEN <<>>
    ELSE [x \in 1..Len(d[Head(obj_keys)]) |-> <<Head(obj_keys), x>>]
            \o IterOrder(Tail(obj_keys), d)

PartAt(d, ref) == d[ref[1]][ref[2]]

----------------------------------------------------------------------------
(* The calibration collaborator (CalibrationManager) *)

Calibrate(points, depositions, sources, rid, dedx) ==
    [x \in DOMAIN depositions |-> depositions[x] * dedx + rid]

CalibrateTracked(points, depositions, sources, rid) ==
    [x \in DOMAIN depositions |-> depositions[x] * 30 + rid + x]

----------------------------------------------------------------------------
(* CalorimetricEnergyProcessor *)

CalorimetricEnergyProcessor_init(scaling, shower_fudge, run_mode, truth_dep_mode) ==
    [scaling |-> scaling, shower_fudge |-> shower_fudge,
     obj_keys |-> PostBase_obj_keys(run_mode), run_mode |-> run_mode,
     truth_point_mode |-> "points", truth_dep_mode |-> truth_dep_mode]

PartScalingInverted(self, part) ==
    IF part.shape = TRACK_SHP THEN self.scaling * self.shower_fudge
    ELSE self.scaling

\* lines 56-59: the scaling of one particle
PartScaling(self, part) ==
    IF part.shape # TRACK_SHP THEN self.scaling * self.shower_fudge
    ELSE self.scaling

CaloPartSkipEmpty(self, part) ==
    IF Len(get_depositions(self, part)) = 0 THEN part
    ELSE [part EXCEPT !.calo_ke = PartScaling(self, part) * np_sum(get_depositions(self, part))]

\* lines 61-63: the body of the loop, the particle as it is left
CaloPart(self, part) ==
    [part EXCEPT !.calo_ke = PartScaling(self, part) * np_sum(get_depositions(self, part))]

----------------------------------------------------------------------------
(* CalibrationProcessor *)

CalibrationProcessor_init(dedx, do_tracking, run_mode, truth_point_mode) ==
    LET truth_dep_key == _dep_map[truth_point_mode]
        keys0 == [x \in {"run_info"} |-> FALSE]
        keys1 == SetItem(keys0, "depositions", run_mode # "truth")
        keys2 == SetItem(keys1, truth_dep_key, run_mode # "reco")
    IN  [dedx |-> dedx, do_tracking |-> do_tracking,
         obj_keys |-> PostBase_obj_keys(run_mode), run_mode |-> run_mode,
         truth_point_mode |-> truth_point_mode,
         truth_dep_attr |-> _dep_attr_map[truth_point_mode],
         truth_dep_key |-> truth_dep_key,
         keys |-> keys2]

OnExceptionContinue(exc) == [pc |-> "calibration", step |-> 1]

\* lines 125-152: the loops have no try/except, so an exception raised by
\* check_units, the collaborator or the write-back leaves process: where the
\* pipeline is afterwards, and how far the loop moved
OnException(exc) == [pc |-> "raised", step |-> 0]

SkipsPartNever(points) == FALSE

\* line 133: the particle is skipped
SkipsPart(points) == Len(points) = 0

UsesSimpleAnd(self, part) == ~self.do_tracking /\ part.shape # TRACK_SHP

\* line 137: the simple call is taken
UsesSimple(self, part) == ~self.do_tracking \/ part.shape # TRACK_SHP

\* lines 138-144: the call the collaborator receives for a particle
CollaboratorCall(self, part, ref, rid) ==
    IF UsesSimple(self, part)
    THEN [fn |-> "__call__", ref |-> ref, points |-> get_points(self, part),
          depositions |-> part.depositions, sources |-> part.sources,
          run_id |-> rid, dedx |-> self.dedx, track |-> FALSE]
    ELSE [fn |-> "process", ref |-> ref, points |-> get_points(self, part),
          depositions |-> part.depositions, sources |-> part.sources,
          run_id |-> rid, dedx |-> None, track |-> TRUE]

CollaboratorOutput(call) ==
    IF call.fn = "__call__"
    THEN Calibrate(call.points, call.depositions, call.sources, call.run_id, call.dedx)
    ELSE CalibrateTracked(call.points, call.depositions, call.sources, call.run_id)

WriteBackTensorOnly(self, d, ref, depositions) ==
    LET part == PartAt(d, ref) IN
    IF ~part.is_truth
    THEN [d EXCEPT !.depositions = Scatter(d.depositions, part.index, depositions)]
    ELSE LET d1 == [d EXCEPT ![ref[1]][ref[2]][self.truth_dep_attr] = depositions]
         IN  [d1 EXCEPT ![self.truth_dep_key] = depositions]

WriteBackTruthIndexed(self, d, ref, depositions) ==
    LET part == PartAt(d, ref) IN
    IF ~part.is_truth
    THEN [d EXCEPT ![ref[1]][ref[2]].depositions = depositions,
                   !.depositions = Scatter(d.depositions, part.index, depositions)]
    ELSE LET d1 == [d EXCEPT ![ref[1]][ref[2]][self.truth_dep_attr] = depositions]
             index == IF self.truth_point_mode = "points" THEN part.index
                      ELSE part.index_adapt
         IN  [d1 EXCEPT ![self.truth_dep_key] =
                            Scatter(d[self.truth_dep_key], index, depositions)]

\* lines 146-152: update the particle and the reference tensor
WriteBack(self, d, ref, depositions) ==
    LET part == PartAt(d, ref) IN
    IF ~part.is_truth
    THEN [d EXCEPT ![ref[1]][ref[2]].depositions = depositions,
                   !.depositions = Scatter(d.depositions, part.index, depositions)]
    ELSE LET d1 == [d EXCEPT ![ref[1]][ref[2]][self.truth_dep_attr] = depositions]
         IN  [d1 EXCEPT ![self.truth_dep_key] = depositions]

----------------------------------------------------------------------------
(* The entries the driver supplies *)

PointCounts == {0, MaxPts}     \* a particle is empty or has MaxPts points
Scalings == {2}
ShowerFudges == {3}
TruthDepModes == {"depositions", "depositions_q"}
TruthPointModes == {"points", "points_adapt"}

RECURSIVE Offset(_, _)
Offset(counts, j) == IF j <= 1 THEN 0 ELSE counts[j - 1] + Offset(counts, j - 1)

Max(a, b) == IF a >= b THEN a ELSE b

\* A reconstructed particle: its depositions are the slice of the shared
\* depositions tensor at its index
RecoParticle(shape, off, n) ==
    [is_truth |-> FALSE, shape |-> shape,
     index |-> [x \in 1..n |-> off + x],
     points |-> [x \in 1..n |-> off + x],
     depositions |-> [x \in 1..n |-> off + x],
     sources |-> [x \in 1..n |-> 0],
     calo_ke |-> UnsetKE]

\* A truth particle: points/depositions/depositions_q on the label points,
\* points_adapt/depositions_adapt_q on the points of the shared tensor
TruthParticle(shape, off, n, offa, na) ==
    [is_truth |-> TRUE, shape |-> shape,
     index |-> [x \in 1..n |-> off + x],
     index_adapt |-> [x \in 1..na |-> offa + x],
     points |-> [x \in 1..n |-> 100 + off + x],
     points_adapt |-> [x \in 1..na |-> offa + x],
     depositions |-> [x \in 1..n |-> 20 + off + x],
     depositions_q |-> [x \in 1..n |-> 10 + off + x],
     depositions_adapt_q |-> [x \in 1..na |-> offa + x],
     sources |-> [x \in 1..n |-> 0],
     calo_ke |-> UnsetKE]

MakeEntry(rshape, rn, tshape, tn, ta, run) ==
    LET nr == Len(rn)
        nt == Len(tn)
        size == Max(Offset(rn, nr + 1), Offset(ta, nt + 1))
    IN  [reco_particles |->
            [j \in 1..nr |-> RecoParticle(rshape[j], Offset(rn, j), rn[j])],
         truth_particles |->
            [j \in 1..nt |-> TruthParticle(tshape[j], Offset(tn, j), tn[j],
                                           Offset(ta, j), ta[j])],
         depositions |-> [y \in 1..size |-> y],
         depositions_label_q |-> [y \in 1..Offset(tn, nt + 1) |-> 10 + y],
         run_info |-> [present |-> run # None, run |-> run]]

----------------------------------------------------------------------------
(* The pipeline: calibration, then calo_ke, on one entry *)

NoCall == [fn |-> "none", cfg |-> "none", args |-> <<>>, ok |-> TRUE,
           cls |-> "none", kwargs |-> <<>>]

Init ==
    \E run_mode \in RunModes, tpm \in TruthPointModes, do_tracking \in BOOLEAN,
       scaling \in Scalings, shower_fudge \in ShowerFudges, tdm \in TruthDepModes,
       run \in {None, 7}, nr \in 0..MaxParts, nt \in 0..MaxParts :
        /\ nr + nt <= MaxParts
        /\ run_mode = "truth" => nr = 0
        /\ run_mode = "reco" => nt = 0
        /\ \E rshape \in [1..nr -> Shapes], rn \in [1..nr -> PointCounts],
              tshape \in [1..nt -> Shapes], tn \in [1..nt -> PointCounts],
              ta \in [1..nt -> PointCounts] :
                \* adapted points exist only for a particle with label points
                /\ \A j \in 1..nt : ta[j] <= tn[j]
                /\ entry = MakeEntry(rshape, rn, tshape, tn, ta, run)
                /\ data = entry
        /\ calib = CalibrationProcessor_init(DefaultDedx, do_tracking, run_mode, tpm)
        /\ calo = CalorimetricEnergyProcessor_init(scaling, shower_fudge, run_mode, tdm)
        /\ pc = "start"
        /\ pos = 0
        /\ run_id = None
        /\ calls = <<>>
        /\ error = "none"
        /\ built = NoCall

CalibOrder == IterOrder(calib.obj_keys, data)
CaloOrder == IterOrder(calo.obj_keys, data)

\* lines 119-123: fetch the run info
CalibrationEnter ==
    /\ pc = "start"
    /\ run_id' = IF data.run_info.present THEN data.run_info.run ELSE None
    /\ pc' = "calibration"
    /\ pos' = 1
    /\ UNCHANGED <<calib, calo, entry, data, calls, error, built>>

\* line 129: check_units raises on the particle
CalibrationUnitError ==
    /\ pc = "calibration"
    /\ pos <= Len(CalibOrder)
    /\ error' = "UnitError"
    /\ pc' = OnException("UnitError").pc
    /\ pos' = pos + OnException("UnitError").step
    /\ UNCHANGED <<calib, calo, entry, data, run_id, calls, built>>

\* lines 132-134: the particle has no points
CalibrationSkip ==
    /\ pc = "calibration"
    /\ pos <= Len(CalibOrder)
    /\ SkipsPart(get_points(calib, PartAt(data, CalibOrder[pos])))
    /\ pos' = pos + 1
    /\ UNCHANGED <<calib, calo, entry, data, pc, run_id, calls, error, built>>

\* lines 136-144: the collaborator raises
CalibrationCollaboratorError ==
    /\ pc = "calibration"
    /\ pos <= Len(CalibOrder)
    /\ LET ref == CalibOrder[pos]
           part == PartAt(data, ref)
       IN  /\ ~SkipsPart(get_points(calib, part))
           /\ calls' = Append(calls, [call |-> CollaboratorCall(calib, part, ref, run_id),
                                     ok |-> FALSE, out |-> <<>>])
    /\ error' = "CalibrationError"
    /\ pc' = OnException("CalibrationError").pc
    /\ pos' = pos + OnException("CalibrationError").step
    /\ UNCHANGED <<calib, calo, entry, data, run_id, built>>

\* lines 136-152: the collaborator returns and the result is written back
CalibrationApply ==
    /\ pc = "calibration"
    /\ pos <= Len(CalibOrder)
    /\ LET ref == CalibOrder[pos]
           part == PartAt(data, ref)
           call == CollaboratorCall(calib, part, ref, run_id)
           depositions == CollaboratorOutput(call)
       IN  /\ ~SkipsPart(get_points(calib, part))
           /\ calls' = Append(calls, [call |-> call, ok |-> TRUE, out |-> depositions])
           /\ IF part.is_truth \/ (InBounds(data.depositions, part.index)
                                    /\ Len(depositions) = Len(part.index))
              THEN /\ data' = WriteBack(calib, data, ref, depositions)
                   /\ pos' = pos + 1
                   /\ UNCHANGED <<pc, error>>
              ELSE \* line 149 raises after line 148 assigned
                   /\ data' = [data EXCEPT ![ref[1]][ref[2]].depositions = depositions]
                   /\ error' = "IndexError"
                   /\ pc' = OnException("IndexError").pc
                   /\ pos' = pos + OnException("IndexError").step
    /\ UNCHANGED <<calib, calo, entry, run_id, built>>

\* the loops of CalibrationProcessor.process are exhausted; the driver calls
\* the next processor
CalibrationReturn ==
    /\ pc = "calibration"
    /\ pos > Len(CalibOrder)
    /\ pc' = "calo_ke"
    /\ pos' = 1
    /\ UNCHANGED <<calib, calo, entry, data, run_id, calls, error, built>>

\* lines 55-63: one particle of CalorimetricEnergyProcessor.process
CaloStep ==
    /\ pc = "calo_ke"
    /\ pos <= Len(CaloOrder)
    /\ LET ref == CaloOrder[pos]
       IN  data' = [data EXCEPT ![ref[1]][ref[2]] = CaloPart(calo, PartAt(data, ref))]
    /\ pos' = pos + 1
    /\ UNCHANGED <<calib, calo, entry, pc, run_id, calls, error, built>>

CaloReturn ==
    /\ pc = "calo_ke"
    /\ pos > Len(CaloOrder)
    /\ pc' = "done"
    /\ UNCHANGED <<calib, calo, entry, data, pos, run_id, calls, error, built>>

Next ==
    \/ CalibrationEnter
    \/ CalibrationUnitError
    \/ CalibrationSkip
    \/ CalibrationCollaboratorError
    \/ CalibrationApply
    \/ CalibrationReturn
    \/ CaloStep
    \/ CaloReturn

Spec == Init /\ [][Next]_vars

----------------------------------------------------------------------------
(* The GNN layer factories *)

\* The classes of the layers module, and the pattern each name contains
LayerClasses == {"NodeLayer", "EdgeLayer", "GlobalLayer"}
ClassPattern ==
    [c \in LayerClasses |->
        IF c = "NodeLayer" THEN "Node" ELSE IF c = "EdgeLayer" THEN "Edge" ELSE "Global"]

\* mlreco.utils.factory.module_dict: the classes whose name has the pattern
module_dict(pattern) == {c \in LayerClasses : ClassPattern[c] = pattern}

\* mlreco.utils.factory.instantiate: look the name of cfg up and construct
instantiate(layer_dict, cfg, kwargs) ==
    IF cfg \in layer_dict
    THEN [ok |-> TRUE, cls |-> cfg, kwargs |-> kwargs]
    ELSE [ok |-> FALSE, cls |-> "ValueError", kwargs |-> <<>>]

\* The names bound at module level of factories.py (lines 3-8 and the defs)
ModuleGlobals ==
    {"module_dict", "instantiate", "layers", "__all__", "node_layer_construct",
     "edge_layer_construct", "global_layer_construct"}

\* The return statement `instantiate(layer_dict, cfg, kw=kw, ...)` of a
\* factory: each keyword reads the variable of its own name in the scope of
\* the function (params: the parameters besides cfg); a name bound neither
\* locally nor at module level raises NameError
ReturnInstantiate(pattern, cfg, params, kwnames) ==
    IF \E name \in kwnames : name \notin (DOMAIN params) \cup ModuleGlobals
    THEN [ok |-> FALSE, cls |-> "NameError", kwargs |-> <<>>]
    ELSE instantiate(module_dict(pattern), cfg, [name \in kwnames |-> params[name]])

node_layer_construct(cfg, node_in, edge_in, glob_in) ==
    ReturnInstantiate("Node", cfg,
        [node_in |-> node_in, edge_in |-> edge_in, glob_in |-> glob_in],
        {"node_in", "edge_in", "glob_in"})

edge_layer_construct(cfg, node_in, edge_in, glob_in) ==
    ReturnInstantiate("Edge", cfg,
        [node_in |-> node_in, edge_in |-> edge_in, glob_in |-> glob_in],
        {"node_in", "edge_in", "glob_in"})

global_layer_construct(cfg, node_in, glob_in) ==
    ReturnInstantiate("Global", cfg,
        [node_in |-> node_in, glob_in |-> glob_in],
        {"node_in", "edge_in"})

CfgNames == LayerClasses \cup {"Unregistered"}
Sizes == 1..MaxSize

Built(fn, cfg, args, res) ==
    [fn |-> fn, cfg |-> cfg, args |-> args, ok |-> res.ok, cls |-> res.cls,
     kwargs |-> res.kwargs]

NodeLayerConstruct ==
    /\ \E cfg \in CfgNames, node_in \in Sizes, edge_in \in Sizes, glob_in \in Sizes :
        built' = Built("node_layer_construct", cfg,
                       [node_in |-> node_in, edge_in |-> edge_in, glob_in |-> glob_in],
                       node_layer_construct(cfg, node_in, edge_in, glob_in))
    /\ UNCHANGED <<calib, calo, entry, data, pc, pos, run_id, calls, error>>

EdgeLayerConstruct ==
    /\ \E cfg \in CfgNames, node_in \in Sizes, edge_in \in Sizes, glob_in \in Sizes :
        built' = Built("edge_layer_construct", cfg,
                       [node_in |-> node_in, edge_in |-> edge_in, glob_in |-> glob_in],
                       edge_layer_construct(cfg, node_in, edge_in, glob_in))
    /\ UNCHANGED <<calib, calo, entry, data, pc, pos, run_id, calls, error>>

GlobalLayerConstruct ==
    /\ \E cfg \in CfgNames, node_in \in Sizes, glob_in \in Sizes :
        built' = Built("global_layer_construct", cfg,
                       [node_in |-> node_in, glob_in |-> glob_in],
                       global_layer_construct(cfg, node_in, glob_in))
    /\ UNCHANGED <<calib, calo, entry, data, pc, pos, run_id, calls, error>>

\* The factories are called when a model is built, with no entry at hand
FactoryInit ==
    /\ entry = MakeEntry(<<>>, <<>>, <<>>, <<>>, <<>>, None)
    /\ data = entry
    /\ calib = CalibrationProcessor_init(DefaultDedx, FALSE, "reco", "points")
    /\ calo = CalorimetricEnergyProcessor_init(1, 1, "reco", "depositions")
    /\ pc = "start"
    /\ pos = 0
    /\ run_id = None
    /\ calls = <<>>
    /\ error = "none"
    /\ built = NoCall

FactoryNext ==
    \/ NodeLayerConstruct
    \/ EdgeLayerConstruct
    \/ GlobalLayerConstruct

FactorySpec == FactoryInit /\ [][FactoryNext]_vars

----------------------------------------------------------------------------
(* Properties *)

CalibrationReturned == pc \in {"calo_ke", "done"}

\* the particle at position q of the calibration loop has been dealt with
Passed(q) == CalibrationReturned \/ (pc = "calibration" /\ q < pos)

IncludesReco(run_mode) == run_mode \in {"reco", "both"}
IncludesTruth(run_mode) == run_mode \in {"truth", "both"}

Factor(part) ==
    IF part.shape = TRACK_SHP THEN calo.scaling ELSE calo.scaling * calo.shower_fudge

CallsOf(ref) == {c \in DOMAIN calls : calls[c].call.ref = ref}
\* the calls whose output was written back (lines 146-152 completed)
WrittenCalls ==
    {c \in DOMAIN calls : calls[c].ok /\ ~(c = Len(calls) /\ error = "IndexError")}
DefaultTruthModes ==
    calib.truth_point_mode = "points" /\ calo.truth_dep_mode = "depositions"

\* C1: after CalibrationProcessor.process returns, the shared depositions
\* tensor at the index of every reconstructed particle of the configured
\* collections equals the particle's depositions, element by element
C1_AliasingAfterCalibration ==
    (CalibrationReturned /\ IncludesReco(calib.run_mode)) =>
        \A j \in DOMAIN data.reco_particles :
            LET p == data.reco_particles[j]
            IN  /\ InBounds(data.depositions, p.index)
                /\ Gather(data.depositions, p.index) = p.depositions

\* C2: after CalorimetricEnergyProcessor.process, every particle with
\* depositions has calo_ke = factor * sum of its depositions, the factor
\* being scaling for a track and scaling * shower_fudge for any other shape
C2_CaloKEIsScaledSum ==
    pc = "done" =>
        \A q \in DOMAIN CaloOrder :
            LET p == PartAt(data, CaloOrder[q])
                deps == IF p.is_truth THEN p[calo.truth_dep_mode] ELSE p.depositions
            IN  Len(deps) > 0 => p.calo_ke = Factor(p) * np_sum(deps)

C2_Witness ==
    /\ pc = "done"
    /\ \E q \in DOMAIN CaloOrder :
        LET p == PartAt(data, CaloOrder[q])
        IN  p.shape = TRACK_SHP /\ p.calo_ke > 0 /\ p.calo_ke = calo.scaling * np_sum(get_depositions(calo, p))
    /\ \E q \in DOMAIN CaloOrder :
        LET p == PartAt(data, CaloOrder[q])
        IN  /\ p.shape = SHOWR_SHP /\ p.calo_ke > 0
            /\ p.calo_ke = calo.scaling * calo.shower_fudge * np_sum(get_depositions(calo, p))

\* C3: a step of the calibration loop on a particle whose resolved points
\* are empty calls no collaborator and leaves every particle and every shared
\* tensor of data as they were
C3_EmptyPointsNoOp ==
    [][(/\ pc = "calibration"
        /\ pos <= Len(CalibOrder)
        /\ Len(get_points(calib, PartAt(data, CalibOrder[pos]))) = 0)
            => (calls' = calls /\ data' = data)]_vars

\* a truth particle that has depositions but no point in the resolved mode
\* was skipped, after another particle was calibrated
C3_Witness ==
    /\ Len(calls) > 0
    /\ \E q \in DOMAIN CalibOrder :
        LET p == PartAt(data, CalibOrder[q])
        IN  /\ Passed(q)
            /\ Len(get_points(calib, p)) = 0
            /\ Len(p.depositions) > 0
            /\ p = PartAt(entry, CalibOrder[q])
            /\ CallsOf(CalibOrder[q]) = {}

\* C4: a particle with points gets exactly one collaborator call (none
\* before the loop reaches it, none if it has no points): the track call
\* (track=True, no dedx) iff do_tracking and its shape is TRACK, otherwise
\* the simple call with the configured dedx
C4_OneCollaboratorCall ==
    \A q \in DOMAIN CalibOrder :
        LET ref == CalibOrder[q]
            p == PartAt(entry, ref)
            pts == IF p.is_truth THEN p[calib.truth_point_mode] ELSE p.points
            cs == CallsOf(ref)
        IN  /\ Cardinality(cs) <= 1
            /\ (Len(pts) = 0 => cs = {})
            /\ (Passed(q) /\ Len(pts) > 0 => Cardinality(cs) = 1)
            /\ \A c \in cs :
                IF calib.do_tracking /\ p.shape = TRACK_SHP
                THEN calls[c].call.fn = "process" /\ calls[c].call.track
                ELSE /\ calls[c].call.fn = "__call__"
                     /\ ~calls[c].call.track
                     /\ calls[c].call.dedx = calib.dedx

C4_Witness ==
    /\ CalibrationReturned
    /\ \E c \in DOMAIN calls : calls[c].call.fn = "process"
    /\ \E c \in DOMAIN calls : calls[c].call.fn = "__call__"

\* C5: the keys mapping of a CalibrationProcessor marks depositions as
\* required exactly when run_mode includes reco and the resolved truth tensor
\* key as required exactly when run_mode includes truth
C5_KeysFollowRunMode ==
    /\ calib.keys["depositions"] = IncludesReco(calib.run_mode)
    /\ calib.keys[_dep_map[calib.truth_point_mode]] = IncludesTruth(calib.run_mode)

\* C6: an exception of check_units or of the collaborator leaves process
\* (it is not handled), the step that raises it writes nothing to data, and
\* once it is raised nothing more is read, calibrated or modified
C6_FailurePropagates ==
    [][/\ (error' # "none" => pc' = "raised")
       /\ ((error = "none" /\ error' \in {"UnitError", "CalibrationError"})
            => (data' = data /\ pos' = pos))
       /\ (pc = "raised" => UNCHANGED <<data, calls, pos, pc, error>>)]_vars

\* process raised on a particle with points, after a collaborator call that
\* failed, with a further particle with points never reached
C6_Witness ==
    /\ pc = "raised"
    /\ error = "CalibrationError"
    /\ pos < Len(CalibOrder)
    /\ ~calls[Len(calls)].ok
    /\ LET later == PartAt(data, CalibOrder[pos + 1])
       IN  /\ Len(get_points(calib, later)) > 0
           /\ later = PartAt(entry, CalibOrder[pos + 1])
           /\ CallsOf(CalibOrder[pos + 1]) = {}

\* C7: global_layer_construct called with a registered Global layer returns
\* the instantiated layer, constructed with the node_in and glob_in it got
C7_GlobalLayerConstructed ==
    (built.fn = "global_layer_construct" /\ built.cfg \in module_dict("Global")) =>
        /\ built.ok
        /\ built.cls = built.cfg
        /\ built.kwargs = [node_in |-> built.args.node_in, glob_in |-> built.args.glob_in]

\* C8 as stated: CalorimetricEnergyProcessor.process leaves the calo_ke of a
\* particle with no points as it was before
C8_EmptyParticleKeepsCaloKE ==
    pc = "done" =>
        \A q \in DOMAIN CaloOrder :
            LET p == PartAt(data, CaloOrder[q])
            IN  Len(get_points(calo, p)) = 0 => p.calo_ke = PartAt(entry, CaloOrder[q]).calo_ke

\* C8 as amended: CalorimetricEnergyProcessor.process assigns calo_ke = 0 to
\* every particle with no depositions, whatever its calo_ke was before
C8_EmptyParticleCaloKEZero ==
    pc = "done" =>
        \A q \in DOMAIN CaloOrder :
            LET p == PartAt(data, CaloOrder[q])
                deps == IF p.is_truth THEN p[calo.truth_dep_mode] ELSE p.depositions
            IN  Len(deps) = 0 => p.calo_ke = 0

\* a particle with no points had its unset calo_ke overwritten, in an entry
\* where calibration calibrated another particle
C8_Witness ==
    /\ pc = "done"
    /\ Len(calls) > 0
    /\ \E q \in DOMAIN CaloOrder :
        /\ Len(get_points(calo, PartAt(data, CaloOrder[q]))) = 0
        /\ PartAt(entry, CaloOrder[q]).calo_ke = UnsetKE
        /\ PartAt(data, CaloOrder[q]).calo_ke = 0

\* C9 as stated: with the default truth modes, after calibration then
\* calo_ke, every calibrated particle, reconstructed or truth, has
\* calo_ke = factor * sum of the depositions the collaborator returned for it
C9_CaloSumsCalibrated ==
    (pc = "done" /\ DefaultTruthModes) =>
        \A c \in WrittenCalls :
            LET p == PartAt(data, calls[c].call.ref)
            IN  p.calo_ke = Factor(p) * np_sum(calls[c].out)

\* C9 as amended: with the default truth modes, every calibrated
\* reconstructed particle has calo_ke = factor * sum of the depositions the
\* collaborator returned for it, and every calibrated truth particle has
\* calo_ke = factor * sum of its depositions attribute, which calibration did
\* not write
C9_CaloSumsCalibratedReco ==
    (pc = "done" /\ DefaultTruthModes) =>
        \A c \in WrittenCalls :
            LET ref == calls[c].call.ref
                p == PartAt(data, ref)
            IN  IF ~p.is_truth
                THEN p.calo_ke = Factor(p) * np_sum(calls[c].out)
                ELSE /\ p.depositions = PartAt(entry, ref).depositions
                     /\ p.depositions_q = calls[c].out
                     /\ p.calo_ke = Factor(p) * np_sum(PartAt(entry, ref).depositions)

C9_Witness ==
    /\ pc = "done"
    /\ DefaultTruthModes
    /\ \E c \in WrittenCalls :
        /\ ~PartAt(data, calls[c].call.ref).is_truth
        /\ np_sum(calls[c].out) # np_sum(calls[c].call.depositions)
    /\ \E c \in WrittenCalls :
        /\ PartAt(data, calls[c].call.ref).is_truth
        /\ np_sum(calls[c].out) # np_sum(calls[c].call.depositions)

\* C10: every calibrated truth particle holds the collaborator's output in
\* depositions_q (points) or depositions_adapt_q (points_adapt), and the
\* shared truth tensor, depositions_label_q (points) or depositions
\* (points_adapt), is the output of the last truth particle calibrated
C10_TruthTensorIsLastOutput ==
    LET attr == IF calib.truth_point_mode = "points" THEN "depositions_q"
                ELSE "depositions_adapt_q"
        key == IF calib.truth_point_mode = "points" THEN "depositions_label_q"
               ELSE "depositions"
        tc == {c \in WrittenCalls : calls[c].call.ref[1] = "truth_particles"}
    IN  /\ \A c \in tc : PartAt(data, calls[c].call.ref)[attr] = calls[c].out
        /\ tc # {} => data[key] = calls[CHOOSE c \in tc : \A b \in tc : b <= c].out

\* two truth particles were calibrated with different outputs
C10_Witness ==
    /\ CalibrationReturned
    /\ \E b, c \in WrittenCalls :
        /\ b < c
        /\ calls[b].call.ref[1] = "truth_particles"
        /\ calls[c].call.ref[1] = "truth_particles"
        /\ calls[b].out # calls[c].out
        /\ data[calib.truth_dep_key] = calls[c].out

====
